---- MODULE Spec2Model ----
(***************************************************************************)
(* dinoscan: the inference gateway (api/analyze.ts), the payload shaper    *)
(* and the inference client (screens/CameraScanner.tsx).                   *)
(*                                                                         *)
(* Strings of the program that are looked into (model text, request and    *)
(* upstream bodies) are modelled by their structure; the fixed messages    *)
(* of the program are modelled by English stand-ins of the same role.      *)
(***************************************************************************)
EXTENDS Integers, Sequences, FiniteSets, TLC

VARIABLES
    \* ---- gateway, one invocation of handler(req, res) ----
    req,        \* the incoming request: method, body form, body
    env,        \* process.env: ARK_API_KEY, ARK_MODEL
    pc,         \* where the handler is suspended
    cursor,     \* readJson: index of the next chunk of the request stream
    total,      \* readJson: running byte count
    chunks,     \* readJson: bytes pushed into the chunk buffer
    reads,      \* number of readJson calls
    parsed,     \* number of JSON.parse calls made on the request body
    timer,      \* the abort timer: "unset", "armed", "fired", "cleared"
    elapsed,    \* milliseconds since the timer was armed
    aborted,    \* controller.signal.aborted
    calls,      \* outbound fetch calls made to the upstream API
    upstream,   \* what the upstream API delivered so far
    extracted,  \* number of extractJson calls
    cors,       \* the headers set on res, by name
    res,        \* responses sent on res, in order
    \* ---- payload shaper, one run ----
    shIn,       \* the ladder run, the source and the byte budget
    shOut,      \* None, or Some(what the run returned and the encodes made)
    \* ---- inference client, the scanner screen ----
    isScanning, \* the loading flag
    jobs,       \* uploads and processImage calls, by order of start
    sent,       \* bodies POSTed to /api/analyze
    results,    \* records passed to onResult
    alerts,     \* alerts shown
    camera,     \* the camera effect: its mounted flag, getUserMedia, the stream
    \* ---- the app around the scanner screen ----
    screen,        \* the screen shown
    currentResult  \* None, or Some(the record shown by the result screen)

gwVars == <<req, env, pc, cursor, total, chunks, reads, parsed, timer, elapsed,
            aborted, calls, upstream, extracted, cors, res>>

shVars == <<shIn, shOut>>

uiVars == <<camera, screen, currentResult>>

clVars == <<isScanning, jobs, sent, results, alerts, uiVars>>

vars == <<gwVars, shVars, clVars>>

-----------------------------------------------------------------------------
(* Small helpers *)

Min(a, b) == IF a <= b THEN a ELSE b

Max(a, b) == IF a >= b THEN a ELSE b

SetMin(S) == CHOOSE x \in S : \A y \in S : x <= y

SetMax(S) == CHOOSE x \in S : \A y \in S : x >= y

-----------------------------------------------------------------------------
(* Text.  A text is a sequence of characters.  A character is "{", "}",    *)
(* a blank, a newline, a prose letter "p", a digit "7" or "n" for the      *)
(* literal null; a member "m"                                              *)
(* stands for one `"key": value` pair of a JSON object (with its comma).   *)
(* Values are named by their JSON literal: "" is the empty string, "0"     *)
(* the number zero, "null" and "false" themselves; every other value is    *)
(* truthy.                                                                 *)

Ch(c) == [c |-> c, k |-> "", v |-> ""]

Mem(k, v) == [c |-> "m", k |-> k, v |-> v]

LB == Ch("{")

RB == Ch("}")

SP == Ch(" ")

NL == Ch("\n")

PR == Ch("p")

D7 == Ch("7")

NUL == Ch("n")

IsWs(ch) == ch.c \in {" ", "\n"}

Falsy(v) == v \in {"", "0", "null", "false"}

\* String.prototype.trim
Trim(t) ==
    IF \A i \in 1..Len(t) : IsWs(t[i]) THEN <<>>
    ELSE LET first == CHOOSE i \in 1..Len(t) :
                        ~IsWs(t[i]) /\ \A j \in 1..(i - 1) : IsWs(t[j])
             last == CHOOSE i \in 1..Len(t) :
                        ~IsWs(t[i]) /\ \A j \in (i + 1)..Len(t) : IsWs(t[j])
         IN  SubSeq(t, first, last)

\* String.prototype.indexOf(ch) from 1, 0 if none
IndexOf(t, ch) ==
    IF \A i \in 1..Len(t) : t[i] # ch THEN 0
    ELSE CHOOSE i \in 1..Len(t) : t[i] = ch /\ \A j \in 1..(i - 1) : t[j] # ch

\* String.prototype.lastIndexOf(ch) from 1, 0 if none
LastIndexOf(t, ch) ==
    IF \A i \in 1..Len(t) : t[i] # ch THEN 0
    ELSE CHOOSE i \in 1..Len(t) : t[i] = ch /\ \A j \in (i + 1)..Len(t) : t[j] # ch

\* String.prototype.slice(0, n)
Slice0(t, n) == SubSeq(t, 1, Min(Len(t), n))

\* Array.prototype.join("\n")
RECURSIVE JoinNL(_)
JoinNL(ts) ==
    IF Len(ts) = 0 THEN <<>>
    ELSE IF Len(ts) = 1 THEN ts[1]
    ELSE ts[1] \o <<NL>> \o JoinNL(Tail(ts))

-----------------------------------------------------------------------------
(* JSON values and JSON.parse on model text.  The grammar is: blanks, then *)
(* a number (digits), null, or an object "{" (member | blank)* "}", then    *)
(* blanks.  An object value is a function from its keys to their values;   *)
(* a repeated key keeps its last value.                                    *)

JObject(f) == [kind |-> "object", f |-> f]

JNumber == [kind |-> "number", f |-> <<>>]

JNull == [kind |-> "null", f |-> <<>>]

IsNumberText(s) == Len(s) >= 1 /\ \A i \in 1..Len(s) : s[i].c = "7"

IsObjectText(s) ==
    /\ Len(s) >= 2
    /\ s[1] = LB
    /\ s[Len(s)] = RB
    /\ \A i \in 2..(Len(s) - 1) : s[i].c = "m" \/ IsWs(s[i])

CanParse(t) ==
    LET s == Trim(t) IN IsNumberText(s) \/ s = <<NUL>> \/ IsObjectText(s)

\* a parse that leaves out the members holding "", 0, null or false
JsonParseTruthy(t) ==
    LET s == Trim(t)
        at == {i \in 1..Len(s) : s[i].c = "m" /\ ~Falsy(s[i].v)}
        keys == {s[i].k : i \in at}
    IN  IF IsNumberText(s) THEN JNumber
        ELSE IF s = <<NUL>> THEN JNull
        ELSE JObject([k \in keys |-> s[SetMax({i \in at : s[i].k = k})].v])

\* JSON.parse(t) for a t that CanParse
JsonParse(t) ==
    LET s == Trim(t)
        at == {i \in 1..Len(s) : s[i].c = "m"}
        keys == {s[i].k : i \in at}
    IN  IF IsNumberText(s) THEN JNumber
        ELSE IF s = <<NUL>> THEN JNull
        ELSE JObject([k \in keys |-> s[SetMax({i \in at : s[i].k = k})].v])

-----------------------------------------------------------------------------
(* Optional values: a field that is absent or of another type is None, a   *)
(* field holding a string (or an array) v is Some(v).                      *)

None == <<>>

Some(v) == <<v>>

IsSome(x) == Len(x) = 1

Val(x) == x[1]

-----------------------------------------------------------------------------
(* Errors and their messages.  A message is a fixed head followed by a     *)
(* text: `"MODEL_NOT_JSON: " + t.slice(0, 240)` is Msg("MODEL_NOT_JSON: ", *)
(* Slice0(t, 240)).                                                        *)

Msg(head, tail) == [head |-> head, tail |-> tail]

Err(name, message) == [name |-> name, message |-> message]

ModelTextKeep == 240

Returned(v) == [ok |-> TRUE, value |-> v, error |-> Err("", Msg("", <<>>))]

Thrown(e) == [ok |-> FALSE, value |-> JNumber, error |-> e]

JsonSyntaxError == Err("SyntaxError", Msg("Unexpected token in JSON", <<>>))

\* the span matched by /\{[\s\S]*\}/ : from the first "{" to the last "}"
\* after it; None when no "}" follows the first "{"
BraceMatch(t) ==
    LET first == IndexOf(t, LB)
        last == LastIndexOf(t, RB)
    IN  IF first >= 1 /\ last > first
        THEN Some(SubSeq(t, first, last))
        ELSE None

extractJson(text) ==
    LET t == Trim(text)
        m == BraceMatch(t)
    IN  IF CanParse(t) THEN Returned(JsonParse(t))
        ELSE IF IsSome(m)
             THEN IF CanParse(Val(m)) THEN Returned(JsonParse(Val(m)))
                  ELSE Thrown(JsonSyntaxError)
             ELSE Thrown(Err("Error",
                             Msg("MODEL_NOT_JSON: ", Slice0(t, ModelTextKeep))))

-----------------------------------------------------------------------------
(* The upstream envelope, as parsed JSON.  kind is "object" or the name of *)
(* a scalar ("null", "zero", "number"); output is Some(array of items) or  *)
(* None; an item holds content and summary, each Some(array) or None; a    *)
(* content part holds text and content, a summary part holds text, each    *)
(* Some(string) or None; choices holds the chat-completion messages.       *)

Envelope(output, choices) ==
    [kind |-> "object", output |-> output, choices |-> choices]

Scalar(kind) == [kind |-> kind, output |-> None, choices |-> None]

Item(content, summary) == [content |-> content, summary |-> summary]

Part(text, content) == [text |-> text, content |-> content]

Choice(content) == [message |-> [content |-> content]]

NonBlank(x) == IsSome(x) /\ Trim(Val(x)) # <<>>

\* the texts pushed for one content array, in order
RECURSIVE ContentTexts(_)
ContentTexts(cs) ==
    IF Len(cs) = 0 THEN <<>>
    ELSE LET c == cs[1]
         IN  (IF NonBlank(c.text) THEN <<Val(c.text)>> ELSE <<>>)
             \o (IF NonBlank(c.content) THEN <<Val(c.content)>> ELSE <<>>)
             \o ContentTexts(Tail(cs))

\* only the first summary's text is pushed
SummaryFirstOnly(ss) ==
    IF Len(ss) = 0 THEN <<>>
    ELSE IF NonBlank(ss[1].text) THEN <<Val(ss[1].text)>> ELSE <<>>

\* the texts pushed for one summary array, in order
RECURSIVE SummaryTexts(_)
SummaryTexts(ss) ==
    IF Len(ss) = 0 THEN <<>>
    ELSE (IF NonBlank(ss[1].text) THEN <<Val(ss[1].text)>> ELSE <<>>)
         \o SummaryTexts(Tail(ss))

\* the texts pushed by the loop over the output items
RECURSIVE OutputTexts(_)
OutputTexts(out) ==
    IF Len(out) = 0 THEN <<>>
    ELSE LET o == out[1]
         IN  (IF IsSome(o.content) THEN ContentTexts(Val(o.content)) ELSE <<>>)
             \o (IF IsSome(o.summary) THEN SummaryTexts(Val(o.summary)) ELSE <<>>)
             \o OutputTexts(Tail(out))

pickAnyText(up) ==
    IF ~IsSome(up.output) THEN <<>>
    ELSE Trim(JoinNL(OutputTexts(Val(up.output))))

\* A raw upstream body: its length in characters and what it spells, an
\* envelope or, when it is not JSON, Scalar("invalid").
Raw(n, doc) == [chars |-> n, doc |-> doc]

\* rawText, untruncated
RawWhole(raw, n) == raw

\* rawText.slice(0, n)
RawSlice0(raw, n) == [chars |-> Min(raw.chars, n), doc |-> raw.doc]

\* safeJsonParse: null when JSON.parse throws, the parsed value otherwise;
\* the empty body parses as "{}"
safeJsonParse(raw) ==
    IF raw.chars = 0 THEN Envelope(None, None)
    ELSE IF raw.doc.kind = "invalid" THEN Scalar("null")
    ELSE raw.doc

\* !upstreamJson?.output
IsFalsyJsonOrNoOutput(up) == up.kind \in {"null", "zero"} \/ ~IsSome(up.output)

\* !upstreamJson
IsFalsyJson(up) == up.kind \in {"null", "zero"}

-----------------------------------------------------------------------------
(* Requests.  An image is a base64 string: its length, the number of "="   *)
(* padding characters, and the first bytes it decodes to.                  *)

Img(len, pad, head) == [len |-> len, pad |-> pad, head |-> head]

NoImage == Img(0, 0, <<>>)

JPEG == <<255, 216, 255, 224, 0, 16, 74, 70, 73, 70, 0, 1>>

PNG == <<137, 80, 78, 71, 13, 10, 26, 10, 0, 0, 0, 13>>

WEBP == <<82, 73, 70, 70, 36, 0, 0, 0, 87, 69, 66, 80>>

WAVE == <<82, 73, 70, 70, 36, 0, 0, 0, 87, 65, 86, 69>>

\* "RIFF....WEBP" with the high bit of every letter set
HIGH == <<210, 201, 198, 198, 36, 0, 0, 0, 215, 197, 194, 208>>

NEARJPEG == <<255, 216, 0, 224, 0, 16, 74, 70, 73, 70, 0, 1>>

PLAIN == <<104, 101, 108, 108, 111, 32, 119, 111, 114, 108, 100, 33>>

Heads == {JPEG, PNG, WEBP, WAVE, HIGH, NEARJPEG, PLAIN}

Images ==
    {NoImage, Img(4, 2, JPEG), Img(20, 0, JPEG)}
    \cup {Img(24, 2, h) : h \in Heads}
    \cup {Img(n, 0, JPEG) : n \in {2516582, 2516583, 2796203, 5000000}}

\* a parsed request body; the JSON value null has no fields
Doc(mode, image, prompt) ==
    [kind |-> "object", mode |-> mode, imageBase64 |-> image, prompt |-> prompt]

NullDoc == [kind |-> "null", mode |-> "", imageBase64 |-> NoImage, prompt |-> ""]

Docs ==
    {Doc("", i, "") : i \in Images}
    \cup {Doc("image", i, "") : i \in {NoImage, Img(24, 2, PNG), Img(2796203, 0, JPEG)}}
    \cup {Doc("text", i, q) : i \in {NoImage, Img(5000000, 0, JPEG)}, q \in {"", "q"}}
    \cup {Doc("video", Img(24, 2, JPEG), "q"), NullDoc}

\* bytes of the JSON text of a body besides the image string
BodyOverhead == 64

ChunkBytes == 1048576

BodyBytes(doc) == doc.imageBase64.len + BodyOverhead

\* the chunks a body of n bytes arrives in
ChunksOf(n) ==
    [i \in 1..((n + ChunkBytes - 1) \div ChunkBytes) |->
        IF i * ChunkBytes <= n THEN ChunkBytes ELSE n - (i - 1) * ChunkBytes]

\* req.body already parsed by the platform
ObjectReq(method, doc) ==
    [method |-> method, bodyKind |-> "object", valid |-> TRUE, doc |-> doc,
     stream |-> <<>>]

\* the body arrives on the request stream; valid: it is JSON text
StreamReq(method, valid, doc, n) ==
    [method |-> method, bodyKind |-> "stream", valid |-> valid, doc |-> doc,
     stream |-> ChunksOf(n)]

Bodies(method) ==
    {ObjectReq(method, d) : d \in Docs \ {NullDoc}}
    \cup {StreamReq(method, TRUE, d, BodyBytes(d)) : d \in Docs}
    \cup {StreamReq(method, FALSE, NullDoc, 7),
          StreamReq(method, FALSE, NullDoc, 5000000),
          StreamReq(method, TRUE, Doc("", NoImage, ""), 0)}

GateBodies(method) ==
    {ObjectReq(method, Doc("", Img(24, 2, JPEG), "")),
     ObjectReq(method, Doc("", NoImage, "")),
     StreamReq(method, TRUE, Doc("", Img(24, 2, JPEG), ""), 24 + BodyOverhead),
     StreamReq(method, FALSE, NullDoc, 7),
     StreamReq(method, TRUE, Doc("", Img(5000000, 0, JPEG), ""), 5000000 + BodyOverhead)}

Methods == {"OPTIONS", "POST", "GET", "PUT"}

EnvValues == {None, Some(""), Some("set")}

Envs == [ARK_API_KEY : EnvValues, ARK_MODEL : EnvValues]

GoodEnv == [ARK_API_KEY |-> Some("set"), ARK_MODEL |-> Some("set")]

\* process.env.X === undefined
EnvUnset(x) == ~IsSome(x)

\* !process.env.X
EnvMissing(x) == ~IsSome(x) \/ Val(x) = ""

-----------------------------------------------------------------------------
(* Validation of the parsed body *)

\* the estimate taken as the length of the base64 string itself
base64BytesUnscaled(b64) == b64.len

base64Bytes(b64) == (b64.len * 3) \div 4

\* Buffer.from(b64, "base64"): the decoded length and the leading bytes
Decode(b64) ==
    LET n == Max(0, (b64.len * 3) \div 4 - b64.pad)
    IN  [length |-> n, bytes |-> SubSeq(b64.head, 1, Min(n, Len(b64.head)))]

\* buf.toString("ascii", from, to): each byte with its high bit cleared
Ascii(buf, from, to) == [i \in 1..(to - from) |-> buf.bytes[from + i] % 128]

\* assertLooksLikeImageBase64: "" when it returns, else the message thrown
assertLooksLikeImageBase64(b64) ==
    LET buf == Decode(b64)
    IN  IF buf.length < 16 THEN "IMAGE_TOO_SMALL"
        ELSE IF buf.bytes[1] = 255 /\ buf.bytes[2] = 216 /\ buf.bytes[3] = 255
             THEN ""
        ELSE IF SubSeq(buf.bytes, 1, 8) = <<137, 80, 78, 71, 13, 10, 26, 10>>
             THEN ""
        ELSE IF /\ Ascii(buf, 0, 4) = <<82, 73, 70, 70>>
                /\ Ascii(buf, 8, 12) = <<87, 69, 66, 80>>
             THEN ""
        ELSE "NOT_AN_IMAGE"

\* responses: res.status(s).json(body) and res.status(s).end()
Json(status, body) == [status |-> status, json |-> TRUE, body |-> body]

End(status) == [status |-> status, json |-> FALSE, body |-> <<>>]

Fail(status, error, detail) == Json(status, [error |-> error, detail |-> detail])

\* (imgBytes / 1024 / 1024).toFixed(2), in hundredths of a megabyte
ToFixed2MB(bytes) == (bytes * 100 + 524288) \div 1048576

\* 10 * (1.8 * 1024 * 1024)
ImageCeilingTenths == 18 * 1024 * 1024

\* 10 * (42 * 1024 * 1024)
BodyCeilingTenths42 == 420 * 1024 * 1024

\* 10 * (4.2 * 1024 * 1024)
BodyCeilingTenths == 42 * 1024 * 1024

ModeOf(b) == IF b.mode = "" THEN "image" ELSE b.mode

\* the checks without the look at the decoded image bytes
ValidateNoMagic(b) ==
    LET mode == ModeOf(b)
        imageBase64 == b.imageBase64
        imgBytes == base64Bytes(imageBase64)
    IN  IF mode = "image"
        THEN IF imageBase64.len = 0
             THEN Some(Json(400, [error |-> "Missing imageBase64"]))
             ELSE IF imgBytes * 10 > ImageCeilingTenths
             THEN Some(Fail(413, "Image too large",
                            [head |-> "image is about ", mb100 |-> ToFixed2MB(imgBytes),
                             tail |-> "MB, keep it <= 1.5MB"]))
             ELSE None
        ELSE IF mode = "text"
        THEN IF b.prompt = ""
             THEN Some(Fail(400, "Missing prompt", [head |-> "text mode needs a prompt"]))
             ELSE None
        ELSE Some(Fail(400, "Invalid mode", [head |-> "mode is image or text"]))

\* the checks between reading the body and the upstream call: Some(response)
\* when one of them answers, None when the request goes on
Validate(b) ==
    LET mode == ModeOf(b)
        imageBase64 == b.imageBase64
        imgBytes == base64Bytes(imageBase64)
        bad == assertLooksLikeImageBase64(imageBase64)
    IN  IF mode = "image"
        THEN IF imageBase64.len = 0
             THEN Some(Json(400, [error |-> "Missing imageBase64"]))
             ELSE IF imgBytes * 10 > ImageCeilingTenths
             THEN Some(Fail(413, "Image too large",
                            [head |-> "image is about ", mb100 |-> ToFixed2MB(imgBytes),
                             tail |-> "MB, keep it <= 1.5MB"]))
             ELSE IF bad # ""
             THEN Some(Fail(400, "Invalid image",
                            IF bad = "NOT_AN_IMAGE"
                            THEN [head |-> "decoded imageBase64 is not an image"]
                            ELSE [head |-> "imageBase64 check failed: ", code |-> bad]))
             ELSE None
        ELSE IF mode = "text"
        THEN IF b.prompt = ""
             THEN Some(Fail(400, "Missing prompt", [head |-> "text mode needs a prompt"]))
             ELSE None
        ELSE Some(Fail(400, "Invalid mode", [head |-> "mode is image or text"]))

-----------------------------------------------------------------------------
(* What the upstream API may answer *)

LongProse == 250

FullAnswer ==
    <<LB, Mem("Name", "Tyrannosaurus"), Mem("Era", "Cretaceous"),
      Mem("Classification", "Theropoda"), Mem("Length", "12m"),
      Mem("Rarity", "legendary"), Mem("Confidence", "95"),
      Mem("Note", "two short sentences"), RB>>

\* all seven fields, with an empty name and confidence zero
FaintAnswer ==
    <<LB, Mem("Name", ""), Mem("Era", "Jurassic"),
      Mem("Classification", "Sauropoda"), Mem("Length", "20m"),
      Mem("Rarity", "rare"), Mem("Confidence", "0"),
      Mem("Note", "worn fragment"), RB>>

NameOnly == <<LB, Mem("Name", "Triceratops"), RB>>

Brief == <<LB, Mem("title", "brief"), Mem("content", "text"), RB>>

\* the model texts tried
AnswerTexts ==
    {FullAnswer, FaintAnswer, NameOnly, Brief,
     <<LB, RB>>,
     <<NL, SP>> \o FaintAnswer \o <<SP>>,
     <<LB, Mem("Name", ""), Mem("Rarity", "rare"), Mem("Confidence", "0"), RB>>,
     <<LB, Mem("Name", "a"), Mem("Name", "b"), RB>>,
     <<SP>> \o NameOnly \o <<NL>>,
     <<PR, PR, SP>> \o NameOnly \o <<SP, PR>>,
     <<PR, LB, PR>> \o NameOnly,
     NameOnly \o <<PR, RB>>,
     NameOnly \o <<PR>> \o FullAnswer,
     <<LB, PR, RB>>,
     <<LB, PR>>,
     <<RB, PR, LB>>,
     <<PR, PR, PR>>,
     <<D7>>,
     <<NUL>>,
     [i \in 1..LongProse |-> PR],
     <<LB>> \o [i \in 1..LongProse |-> PR] \o <<RB>>}

BlankTexts == {<<>>, <<SP>>, <<NL, SP>>}

SPart(text) == [text |-> text]

ChatOnly(t) == Envelope(None, Some(<<Choice(Some(t))>>))

MessageText(t) == Envelope(Some(<<Item(Some(<<Part(Some(t), None)>>), None)>>), None)

MessageContent(t) == Envelope(Some(<<Item(Some(<<Part(None, Some(t))>>), None)>>), None)

SummaryOnly(t) == Envelope(Some(<<Item(None, Some(<<SPart(Some(t))>>))>>), None)

\* a reasoning item followed by a message item
ReasoningThenMessage(s, t) ==
    Envelope(Some(<<Item(None, Some(<<SPart(Some(s))>>)),
                    Item(Some(<<Part(Some(t), None)>>), None)>>), None)

\* the texts tried in every shape
CoreTexts == {FullAnswer, NameOnly, <<PR, PR, SP>> \o NameOnly \o <<SP, PR>>,
              <<LB, PR, RB>>, <<PR, PR, PR>>}

Envelopes ==
    {ChatOnly(t) : t \in CoreTexts}
    \cup {MessageText(t) : t \in AnswerTexts \cup BlankTexts}
    \cup {MessageContent(t) : t \in CoreTexts}
    \cup {SummaryOnly(t) : t \in CoreTexts \cup BlankTexts}
    \cup {ReasoningThenMessage(s, t) :
            s \in {<<PR, PR>>, <<PR, LB, PR, RB>>, <<SP>>}, t \in {FullAnswer, <<SP>>}}
    \cup {Envelope(Some(<<Item(Some(<<Part(Some(<<PR>>), Some(NameOnly)),
                                      Part(None, None)>>),
                               Some(<<SPart(Some(<<PR>>)), SPart(None)>>))>>), None),
          Envelope(Some(<<Item(None, Some(<<SPart(Some(<<PR, PR>>)),
                                            SPart(Some(NameOnly))>>))>>), None),
          Envelope(Some(<<Item(Some(<<Part(Some(<<SP>>), None)>>),
                               Some(<<SPart(Some(NameOnly)), SPart(None),
                                      SPart(Some(<<SP>>))>>))>>), None),
          Envelope(Some(<<>>), None),
          Envelope(Some(<<Item(None, None)>>), None),
          Envelope(None, None),
          Scalar("null"), Scalar("zero"), Scalar("number")}

NotJson == Scalar("invalid")

RawTexts ==
    {Raw(300, e) : e \in Envelopes}
    \cup {Raw(n, NotJson) : n \in {0, 12, 2000, 2001, 5000}}

Statuses == {200, 299, 300, 400, 503}

\* upstream.ok
IsOk(status) == 200 <= status /\ status <= 299

-----------------------------------------------------------------------------
(* The handler of api/analyze.ts *)

timeoutMs == 25000

UpstreamBodyKeep == 2000

TickMs == 12500

MaxElapsed == 25000

\* the request sent to the upstream API
Payload(b) ==
    [mode |-> ModeOf(b),
     image |-> IF ModeOf(b) = "image" THEN b.imageBase64 ELSE NoImage,
     max_output_tokens |-> IF ModeOf(b) = "image" THEN 1200 ELSE 900]

NoUpstream == [status |-> 0, raw |-> None]

\* a response is sent and the handler returns
Respond(r) == res' = Append(res, r) /\ pc' = "done"

\* the handler after readJson, with the upstream request issued twice
AfterBodyTwice(b) ==
    LET v == Validate(b)
    IN  IF IsSome(v)
        THEN /\ Respond(Val(v))
             /\ UNCHANGED <<timer, elapsed, aborted, calls, upstream, extracted>>
        ELSE /\ pc' = "fetching"
             /\ timer' = "armed"
             /\ elapsed' = 0
             /\ calls' = Append(Append(calls, Payload(b)), Payload(b))
             /\ UNCHANGED <<aborted, upstream, extracted, res>>

\* the body is available: validate, then arm the timer and call the upstream
AfterBody(b) ==
    LET v == Validate(b)
    IN  IF IsSome(v)
        THEN /\ Respond(Val(v))
             /\ UNCHANGED <<timer, elapsed, aborted, calls, upstream, extracted>>
        ELSE /\ pc' = "fetching"
             /\ timer' = "armed"
             /\ elapsed' = 0
             /\ calls' = Append(calls, Payload(b))
             /\ UNCHANGED <<aborted, upstream, extracted, res>>

\* what readJson returns: req.body, or JSON.parse(raw || "{}")
ParsedBody ==
    IF req.bodyKind = "object" THEN req.doc
    ELSE IF chunks = 0 THEN Doc("", NoImage, "")
    ELSE req.doc

\* the gate with the configuration check ahead of the method gate
GateEnvFirst(method, e) ==
    IF EnvMissing(e.ARK_API_KEY) \/ EnvMissing(e.ARK_MODEL)
    THEN Some(Fail(500, "Missing env", [head |-> "set ARK_API_KEY and ARK_MODEL"]))
    ELSE IF method = "OPTIONS" THEN Some(End(204))
    ELSE IF method # "POST" THEN Some(Json(405, [error |-> "Method Not Allowed"]))
    ELSE None

\* the method gate and the configuration check: Some(response) when one of
\* them answers, None when the request goes on
Gate(method, e) ==
    IF method = "OPTIONS" THEN Some(End(204))
    ELSE IF method # "POST" THEN Some(Json(405, [error |-> "Method Not Allowed"]))
    ELSE IF EnvMissing(e.ARK_API_KEY) \/ EnvMissing(e.ARK_MODEL)
    THEN Some(Fail(500, "Missing env", [head |-> "set ARK_API_KEY and ARK_MODEL"]))
    ELSE None

\* the headers of a response on which none was set
NoHeaders == [n \in {} |-> ""]

\* res.setHeader(name, value)
SetHeader(headers, name, value) ==
    [n \in DOMAIN headers \cup {name} |-> IF n = name THEN value ELSE headers[n]]

\* a setCors that allows the origin and names no method or header
setCorsOrigin(headers) == SetHeader(headers, "Access-Control-Allow-Origin", "*")

setCors(headers) ==
    SetHeader(SetHeader(SetHeader(headers,
        "Access-Control-Allow-Origin", "*"),
        "Access-Control-Allow-Methods", "POST,OPTIONS"),
        "Access-Control-Allow-Headers", "Content-Type,Authorization")

\* handler entry up to its first suspension
Invoke ==
    /\ UNCHANGED <<shVars, clVars>>
    /\ pc = "start"
    /\ cors' = setCors(cors)
    /\ UNCHANGED <<req, env, cursor, total, chunks, parsed>>
    /\ IF IsSome(Gate(req.method, env))
       THEN /\ Respond(Val(Gate(req.method, env)))
            /\ UNCHANGED <<reads, timer, elapsed, aborted, calls, upstream, extracted>>
       ELSE /\ reads' = reads + 1
            /\ IF req.bodyKind = "object"
               THEN AfterBody(ParsedBody)
               ELSE /\ pc' = "reading"
                    /\ UNCHANGED <<timer, elapsed, aborted, calls, upstream,
                                   extracted, res>>

\* readJson: one iteration of the loop over the request stream
ReadChunk ==
    /\ UNCHANGED <<shVars, clVars>>
    /\ pc = "reading"
    /\ cursor <= Len(req.stream)
    /\ total' = total + req.stream[cursor]
    /\ UNCHANGED <<req, env, reads, parsed, timer, elapsed, aborted, calls, upstream,
                   extracted, cors>>
    /\ IF total' * 10 > BodyCeilingTenths
       THEN /\ Respond(Fail(413, "Payload too large", [head |-> "request body too large"]))
            /\ UNCHANGED <<cursor, chunks>>
       ELSE /\ chunks' = chunks + req.stream[cursor]
            /\ cursor' = cursor + 1
            /\ UNCHANGED <<pc, res>>

\* readJson: the stream has ended; parse, then go on with the handler
ReadEnd ==
    /\ UNCHANGED <<shVars, clVars>>
    /\ pc = "reading"
    /\ cursor > Len(req.stream)
    /\ parsed' = parsed + 1
    /\ UNCHANGED <<req, env, cursor, total, chunks, reads, cors>>
    /\ IF chunks # 0 /\ ~req.valid
       THEN /\ Respond(Fail(400, "Bad JSON", JsonSyntaxError.message))
            /\ UNCHANGED <<timer, elapsed, aborted, calls, upstream, extracted>>
       ELSE AfterBody(ParsedBody)


\* the catch block without the test of the error's name
CatchDetailPlain(e) == e.message

\* the catch block: the detail reported for a thrown error
CatchDetail(e) ==
    IF e.name = "AbortError"
    THEN [head |-> "Timeout after ", ms |-> timeoutMs, tail |-> "ms"]
    ELSE e.message

\* a finally block that leaves the timer as it is
KeepTimeout(t) == t

\* the finally block: clearTimeout(timer)
ClearTimeout(t) == IF t = "armed" THEN "cleared" ELSE t

\* the upstream phase with finally and no catch: the error leaves the handler
CatchRethrow(e) ==
    /\ pc' = "crashed"
    /\ res' = res
    /\ timer' = ClearTimeout(timer)

\* catch and finally of the upstream phase
Catch(e) ==
    /\ Respond(Fail(502, "Function failed", CatchDetail(e)))
    /\ timer' = ClearTimeout(timer)

\* data?.[k] || d
FieldOr(data, k, d) ==
    IF data.kind = "object" /\ k \in DOMAIN data.f /\ ~Falsy(data.f[k])
    THEN data.f[k] ELSE d

\* fetch resolves with the response head; the handler starts reading the body
FetchResolve ==
    /\ UNCHANGED <<shVars, clVars>>
    /\ pc = "fetching"
    /\ \E status \in Statuses : upstream' = [status |-> status, raw |-> None]
    /\ pc' = "text"
    /\ UNCHANGED <<req, env, cursor, total, chunks, reads, parsed, timer, elapsed,
                   aborted, calls, extracted, cors, res>>

\* fetch rejects (network failure)
FetchReject ==
    /\ UNCHANGED <<shVars, clVars>>
    /\ pc = "fetching"
    /\ Catch(Err("TypeError", Msg("fetch failed", <<>>)))
    /\ UNCHANGED <<req, env, cursor, total, chunks, reads, parsed, elapsed, aborted,
                   calls, upstream, extracted, cors>>

\* upstream.text() rejects (the connection breaks while the body is read)
TextReject ==
    /\ UNCHANGED <<shVars, clVars>>
    /\ pc = "text"
    /\ Catch(Err("TypeError", Msg("terminated", <<>>)))
    /\ UNCHANGED <<req, env, cursor, total, chunks, reads, parsed, elapsed, aborted,
                   calls, upstream, extracted, cors>>

\* upstream.text() resolves; the rest of the try block runs to its response
TextResolve ==
    /\ UNCHANGED <<shVars, clVars>>
    /\ pc = "text"
    /\ \E rawText \in RawTexts :
        LET upstreamJson == safeJsonParse(rawText)
            anyText == pickAnyText(upstreamJson)
            data == extractJson(anyText)
        IN  /\ upstream' = [upstream EXCEPT !.raw = Some(rawText)]
            /\ IF ~IsOk(upstream.status)
               THEN /\ Respond(Json(502,
                          [error |-> "Upstream Ark error",
                           upstreamStatus |-> upstream.status,
                           upstreamBody |-> RawSlice0(rawText, UpstreamBodyKeep),
                           hint |-> IF upstream.status = 400
                                    THEN "request shape, image or model id"
                                    ELSE "check ARK settings and network"]))
                    /\ timer' = ClearTimeout(timer)
                    /\ UNCHANGED extracted
               ELSE IF IsFalsyJson(upstreamJson)
               THEN /\ Respond(Json(502,
                          [error |-> "Ark returned non-JSON",
                           upstreamBody |-> RawSlice0(rawText, UpstreamBodyKeep)]))
                    /\ timer' = ClearTimeout(timer)
                    /\ UNCHANGED extracted
               ELSE IF anyText = <<>>
               THEN /\ Respond(Json(502,
                          [error |-> "Empty model text",
                           detail |-> [head |-> "no text field in the Ark body"],
                           upstream |-> upstreamJson]))
                    /\ timer' = ClearTimeout(timer)
                    /\ UNCHANGED extracted
               ELSE /\ extracted' = extracted + 1
                    /\ IF ~data.ok
                       THEN Catch(data.error)
                       ELSE /\ timer' = ClearTimeout(timer)
                            /\ IF ModeOf(ParsedBody) = "text"
                               THEN Respond(Json(200, JObject(
                                      [title |-> FieldOr(data.value, "title", "science brief"),
                                       content |-> FieldOr(data.value, "content",
                                                           "no content generated")])))
                               ELSE Respond(Json(200, data.value))
    /\ UNCHANGED <<req, env, cursor, total, chunks, reads, parsed, elapsed, aborted,
                   calls, cors>>

\* time passes while the upstream call is outstanding
Tick ==
    /\ UNCHANGED <<shVars, clVars>>
    /\ pc \in {"fetching", "text"}
    /\ elapsed < MaxElapsed
    /\ elapsed' = elapsed + TickMs
    /\ UNCHANGED <<req, env, pc, cursor, total, chunks, reads, parsed, timer, aborted,
                   calls, upstream, extracted, cors, res>>

\* the timer callback: controller.abort(); the pending await rejects with
\* an AbortError
TimerFire ==
    /\ UNCHANGED <<shVars, clVars>>
    /\ timer = "armed"
    /\ elapsed >= timeoutMs
    /\ aborted' = TRUE
    /\ IF pc \in {"fetching", "text"}
       THEN /\ Respond(Fail(502, "Function failed",
                  CatchDetail(Err("AbortError", Msg("This operation was aborted", <<>>)))))
            /\ timer' = "fired"
       ELSE /\ timer' = "fired"
            /\ UNCHANGED <<pc, res>>
    /\ UNCHANGED <<req, env, cursor, total, chunks, reads, parsed, elapsed, calls,
                   upstream, extracted, cors>>

-----------------------------------------------------------------------------
(* Media Codec and Payload Shaper (screens/CameraScanner.tsx).  A source   *)
(* is a video frame or a decoded file: its size, the base64 length the     *)
(* JPEG encoder yields for it under each preset of the ladder it is run    *)
(* on, and the way the floating-point product w * scale falls when it is   *)
(* exactly halfway between two integers.                                   *)

Preset(maxDim, quality) == [maxDim |-> maxDim, quality |-> quality]

\* qualities in hundredths
CaptureLadder ==
    <<Preset(1280, 75), Preset(1024, 70), Preset(900, 65), Preset(800, 62),
      Preset(720, 60), Preset(640, 58), Preset(560, 56), Preset(512, 54),
      Preset(480, 52), Preset(420, 50)>>

FileLadder ==
    <<Preset(1600, 78), Preset(1400, 74), Preset(1200, 70), Preset(1024, 68),
      Preset(900, 64), Preset(800, 62), Preset(720, 60), Preset(640, 58),
      Preset(560, 56), Preset(512, 54), Preset(480, 52)>>

\* an estimate of half the base64 length
approxBase64BytesHalf(b64) == b64.len \div 2

approxBase64Bytes(b64) == (b64.len * 3) \div 4

\* Math.floor(num / den)
RoundDown(num, den, tieUp) == num \div den

\* Math.round(num / den) for den > 0; at an exact half the floating-point
\* value may fall on either side
Round(num, den, tieUp) ==
    LET q == (2 * num + den) \div (2 * den)
    IN  IF (2 * num + den) % (2 * den) = 0 /\ ~tieUp THEN q - 1 ELSE q

\* Math.round(side * Math.min(1, maxDim / Math.max(w, h)))
Scaled(side, maxDim, w, h, tieUp) ==
    IF Max(w, h) <= maxDim THEN side
    ELSE Round(side * maxDim, Max(w, h), tieUp)

\* canvasToJpegBase64; an empty canvas exports "data:,", whose base64 part
\* is the empty string
canvasToJpegBase64(maxDim, quality, sourceW, sourceH, encLen, tieUp) ==
    LET width == Scaled(sourceW, maxDim, sourceW, sourceH, tieUp)
        height == Scaled(sourceH, maxDim, sourceW, sourceH, tieUp)
    IN  [maxDim |-> maxDim, quality |-> quality, width |-> width, height |-> height,
         base64 |-> [len |-> IF width = 0 \/ height = 0 THEN 0 ELSE encLen]]

\* the loop with "bytes < bytesLimit" as its exit test
RECURSIVE AttemptsStrict(_, _, _, _)
AttemptsStrict(attempts, i, src, bytesLimit) ==
    IF i > Len(attempts) THEN <<>>
    ELSE LET a == attempts[i]
             out == canvasToJpegBase64(a.maxDim, a.quality, src.w, src.h,
                                       src.enc[i], src.tieUp)
             bytes == approxBase64Bytes(out.base64)
             best == [base64 |-> out.base64, bytes |-> bytes, maxDim |-> out.maxDim,
                      quality |-> out.quality, width |-> out.width,
                      height |-> out.height]
         IN  IF bytes < bytesLimit THEN <<best>>
             ELSE <<best>> \o AttemptsStrict(attempts, i + 1, src, bytesLimit)

\* the loop over the attempts from index i on: the attempts made, in order
RECURSIVE Attempts(_, _, _, _)
Attempts(attempts, i, src, bytesLimit) ==
    IF i > Len(attempts) THEN <<>>
    ELSE LET a == attempts[i]
             out == canvasToJpegBase64(a.maxDim, a.quality, src.w, src.h,
                                       src.enc[i], src.tieUp)
             bytes == approxBase64Bytes(out.base64)
             best == [base64 |-> out.base64, bytes |-> bytes, maxDim |-> out.maxDim,
                      quality |-> out.quality, width |-> out.width,
                      height |-> out.height]
         IN  IF bytes <= bytesLimit THEN <<best>>
             ELSE <<best>> \o Attempts(attempts, i + 1, src, bytesLimit)

\* what a shaper run returns (best) and the encodes it made
Shaped(log) == [best |-> log[Len(log)], encodes |-> log]

captureFromVideoAutoCompress(video, bytesLimit) ==
    Shaped(Attempts(CaptureLadder, 1, video, bytesLimit))

compressFileToJpegBase64(img, bytesLimit) ==
    Shaped(Attempts(FileLadder, 1, img, bytesLimit))

\* source sizes tried
SourceSizes ==
    {<<1280, 720>>, <<720, 1280>>, <<1920, 1080>>, <<4000, 3000>>, <<640, 480>>,
     <<1, 5000>>, <<5600, 105>>, <<0, 0>>}

\* base64 lengths the encoder may yield, largest first: their estimates are
\* 1200001, 1200000 and 300 bytes
EncLens == <<1600002, 1600001, 400>>

\* encoder outputs over a ladder of n presets: shrinking along the ladder,
\* and two that do not shrink
EncProfiles(n) ==
    {[i \in 1..n |-> IF i < a THEN EncLens[1] ELSE IF i < b THEN EncLens[2] ELSE EncLens[3]] :
        a \in 1..(n + 1), b \in 1..(n + 1)}
    \cup {[i \in 1..n |-> IF i % 2 = 1 THEN EncLens[1] ELSE EncLens[3]],
          [i \in 1..n |-> IF i = 2 THEN EncLens[2] ELSE EncLens[1]]}

Sources(n) ==
    {[w |-> d[1], h |-> d[2], enc |-> e, tieUp |-> t] :
        d \in SourceSizes, e \in EncProfiles(n), t \in BOOLEAN}

Budgets == {300, 1200000, 1200001}

ShaperInputs ==
    /\ shIn \in [ladder : {"capture"}, src : Sources(Len(CaptureLadder)), limit : Budgets]
               \cup [ladder : {"file"}, src : Sources(Len(FileLadder)), limit : Budgets]
    /\ shOut = None

\* one run of the shaper
Shape ==
    /\ shOut = None
    /\ shOut' = Some(IF shIn.ladder = "capture"
                     THEN captureFromVideoAutoCompress(shIn.src, shIn.limit)
                     ELSE compressFileToJpegBase64(shIn.src, shIn.limit))
    /\ UNCHANGED <<shIn, gwVars, clVars>>

GatewayInit ==
    /\ \/ req \in Bodies("POST") /\ env = GoodEnv
       \/ \E m \in Methods : req \in GateBodies(m) /\ env \in Envs
    /\ pc = "start"
    /\ cursor = 1
    /\ total = 0
    /\ chunks = 0
    /\ reads = 0
    /\ parsed = 0
    /\ timer = "unset"
    /\ elapsed = 0
    /\ aborted = FALSE
    /\ calls = <<>>
    /\ upstream = NoUpstream
    /\ extracted = 0
    /\ cors = NoHeaders
    /\ res = <<>>

-----------------------------------------------------------------------------
(* Inference Client: the first CameraScanner component of                  *)
(* screens/CameraScanner.tsx.  jobs holds one entry for each press of the  *)
(* shutter and each file picked so far, with the place the upload or the   *)
(* processImage call it started is suspended at.                           *)

BYTES_LIMIT == 1200000

MaxJobs == 2

\* encoder output that is the same under every preset
Flat(n, len) == [i \in 1..n |-> len]

Media(w, h, enc) == [w |-> w, h |-> h, enc |-> enc, tieUp |-> TRUE]

\* frames the video element may show
ClientVideos ==
    {Media(1280, 720, Flat(10, EncLens[3])),
     Media(1920, 1080, [i \in 1..10 |-> IF i < 3 THEN EncLens[1] ELSE EncLens[2]]),
     Media(4000, 3000, Flat(10, EncLens[1])),
     Media(0, 0, Flat(10, EncLens[3]))}

\* files the user may pick; decodes: the browser can decode it as an image
ClientFiles ==
    {[decodes |-> TRUE, img |-> Media(4000, 3000, Flat(11, EncLens[2]))],
     [decodes |-> TRUE, img |-> Media(4000, 3000, Flat(11, EncLens[1]))],
     [decodes |-> FALSE, img |-> Media(0, 0, Flat(11, EncLens[3]))]}

\* bodies of a 2xx answer of /api/analyze, as resp.json() parses them;
\* kind "invalid" is a body that is not JSON
ClientBodies ==
    {JsonParse(FullAnswer), JsonParse(NameOnly), JObject(<<>>),
     JObject([Name |-> "", Rarity |-> "rare", Confidence |-> "0", Note |-> "null"]),
     JNull, [kind |-> "string", f |-> <<>>],
     [kind |-> "invalid", f |-> <<>>]}

ErrorStatuses == {400, 502}

\* coordinates in ten-thousandths of a degree; FallbackPosition is 39.9042, 116.4074
FallbackPosition == [lat |-> 399042, lng |-> 1164074]

\* what getCurrentPosition may deliver: a position, or an error (also its
\* 5000 ms timeout)
GeoOutcomes ==
    {[ok |-> TRUE, lat |-> 312304, lng |-> 1214737], [ok |-> FALSE, lat |-> 0, lng |-> 0]}

\* data[k]: undefined when data has no such property
Prop(data, k) ==
    IF data.kind = "object" /\ k \in DOMAIN data.f THEN data.f[k] ELSE "undefined"

\* v, with no default
OrElseNothing(v, d) == v

\* v || d
OrElse(v, d) == IF v = "undefined" \/ Falsy(v) THEN d ELSE v

\* the record built at the end of processImage
Fossil(data, imageUrl, lat, lng) ==
    [id |-> "random id",
     name |-> OrElse(Prop(data, "Name"), "unknown specimen"),
     era |-> OrElse(Prop(data, "Era"), "Mesozoic"),
     classification |-> OrElse(Prop(data, "Classification"), "Dinosauria"),
     length |-> OrElse(Prop(data, "Length"), "pending"),
     rarity |-> OrElse(Prop(data, "Rarity"), "common"),
     matchConfidence |-> OrElse(Prop(data, "Confidence"), "70"),
     description |-> "field sample analysed by AI vision",
     note |-> OrElse(Prop(data, "Note"), "features still being compared"),
     imageUrl |-> imageUrl,
     timestamp |-> "now",
     location |-> [lat |-> lat, lng |-> lng]]

\* a job: an upload being decoded or a processImage call
Job(at, file, best, data) == [pc |-> at, file |-> file, best |-> best, data |-> data]

NoFile == [decodes |-> FALSE, img |-> Media(0, 0, <<>>)]

NoBest == [base64 |-> [len |-> 0], bytes |-> 0, maxDim |-> 0, quality |-> 0,
           width |-> 0, height |-> 0]

Ended == Job("ended", NoFile, NoBest, JNull)

\* the data URL of a shaped image is named by the image
DataUrl(best) == [base64 |-> best.base64, width |-> best.width, height |-> best.height]

\* processImage up to its fetch, as job j
StartProcessImage(j, best) ==
    /\ isScanning' = TRUE
    /\ sent' = Append(sent, [imageBase64 |-> best.base64, mimeType |-> "image/jpeg"])
    /\ jobs' = [i \in 1..Max(j, Len(jobs)) |->
                  IF i = j THEN Job("fetch", NoFile, best, JNull) ELSE jobs[i]]

\* the catch of processImage for job j, with no finally block
FailProcessImageNoFinally(j, why) ==
    /\ alerts' = Append(alerts, [title |-> "analysis failed", why |-> why])
    /\ isScanning' = isScanning
    /\ jobs' = [jobs EXCEPT ![j] = Ended]

\* catch and finally of processImage for job j
FailProcessImage(j, why) ==
    /\ alerts' = Append(alerts, [title |-> "analysis failed", why |-> why])
    /\ isScanning' = FALSE
    /\ jobs' = [jobs EXCEPT ![j] = Ended]

\* the camera effect at mount: getUserMedia is pending, nothing is held yet
CameraStarted ==
    [mounted |-> TRUE, gum |-> "pending", tracks |-> "none", streamRef |-> FALSE,
     srcObject |-> FALSE]

\* setupCamera after getUserMedia resolved, with no look at the mounted flag
setupCameraUnchecked(cam) ==
    [cam EXCEPT !.gum = "resolved", !.tracks = "live", !.streamRef = TRUE,
                !.srcObject = TRUE]

\* setupCamera after getUserMedia resolved with a stream: stop its tracks if
\* the effect was cleaned up meanwhile, else keep it and show it
setupCamera(cam) ==
    IF ~cam.mounted
    THEN [cam EXCEPT !.gum = "resolved", !.tracks = "stopped"]
    ELSE [cam EXCEPT !.gum = "resolved", !.tracks = "live", !.streamRef = TRUE,
                     !.srcObject = TRUE]

\* the cleanup of the camera effect, run when the component unmounts
Cleanup(cam) ==
    [cam EXCEPT !.mounted = FALSE,
                !.tracks = IF cam.streamRef THEN "stopped" ELSE @,
                !.streamRef = FALSE]

\* getUserMedia resolves with a stream
GetUserMediaResolve ==
    /\ camera.gum = "pending"
    /\ camera' = setupCamera(camera)
    /\ UNCHANGED <<isScanning, jobs, sent, results, alerts, screen, currentResult,
                   gwVars, shVars>>

\* getUserMedia rejects: the user is told that the camera is unavailable
\* (gum = "rejected" stands for that alert) and no stream is held
GetUserMediaReject ==
    /\ camera.gum = "pending"
    /\ camera' = [camera EXCEPT !.gum = "rejected"]
    /\ UNCHANGED <<isScanning, jobs, sent, results, alerts, screen, currentResult,
                   gwVars, shVars>>

\* the close button: the app shows HOME and the scanner unmounts
OnBack ==
    /\ screen = "SCANNER"
    /\ screen' = "HOME"
    /\ camera' = Cleanup(camera)
    /\ UNCHANGED <<isScanning, jobs, sent, results, alerts, currentResult,
                   gwVars, shVars>>

\* App.handleScanComplete: the record is kept and RESULT is shown, which
\* unmounts the scanner if it is the screen shown
handleScanComplete(fossil) ==
    /\ currentResult' = Some(fossil)
    /\ screen' = "RESULT"
    /\ camera' = IF screen = "SCANNER" THEN Cleanup(camera) ELSE camera

\* the shutter button (disabled while isScanning)
HandleCapture ==
    /\ screen = "SCANNER"
    /\ ~isScanning
    /\ Len(jobs) < MaxJobs
    /\ \E video \in ClientVideos :
        LET shaped == captureFromVideoAutoCompress(video, BYTES_LIMIT)
        IN  IF shaped.best.bytes > BYTES_LIMIT
            THEN /\ alerts' = Append(alerts, [title |-> "image still too large",
                                              why |-> "capture"])
                 /\ jobs' = Append(jobs, Ended)
                 /\ UNCHANGED <<isScanning, sent>>
            ELSE /\ StartProcessImage(Len(jobs) + 1, shaped.best)
                 /\ UNCHANGED alerts
    /\ UNCHANGED <<results, uiVars, gwVars, shVars>>

\* the file input changes: the file is read and decoded
HandleFileUpload ==
    /\ screen = "SCANNER"
    /\ Len(jobs) < MaxJobs
    /\ \E file \in ClientFiles :
        jobs' = Append(jobs, Job("decode", file, NoBest, JNull))
    /\ UNCHANGED <<isScanning, sent, results, alerts, uiVars, gwVars, shVars>>

\* reading or decoding the file fails
FileDecodeFails ==
    /\ \E j \in 1..Len(jobs) :
        /\ jobs[j].pc = "decode"
        /\ ~jobs[j].file.decodes
        /\ alerts' = Append(alerts, [title |-> "upload failed", why |-> "Image decode failed"])
        /\ jobs' = [jobs EXCEPT ![j] = Ended]
    /\ UNCHANGED <<isScanning, sent, results, uiVars, gwVars, shVars>>

\* the file is decoded: the ladder runs on the canvas (canvasRef.current is
\* null once the component has unmounted), then processImage starts
FileDecoded ==
    /\ \E j \in 1..Len(jobs) :
        /\ jobs[j].pc = "decode"
        /\ jobs[j].file.decodes
        /\ LET shaped == compressFileToJpegBase64(jobs[j].file.img, BYTES_LIMIT)
           IN  IF ~camera.mounted
               THEN /\ alerts' = Append(alerts, [title |-> "upload failed",
                                                 why |-> "Cannot read properties of null"])
                    /\ jobs' = [jobs EXCEPT ![j] = Ended]
                    /\ UNCHANGED <<isScanning, sent>>
               ELSE IF shaped.best.bytes > BYTES_LIMIT
               THEN /\ alerts' = Append(alerts, [title |-> "image still too large",
                                                 why |-> "upload"])
                    /\ jobs' = [jobs EXCEPT ![j] = Ended]
                    /\ UNCHANGED <<isScanning, sent>>
               ELSE /\ StartProcessImage(j, shaped.best)
                    /\ UNCHANGED alerts
    /\ UNCHANGED <<results, uiVars, gwVars, shVars>>

\* the fetch of /api/analyze rejects
FetchFails ==
    /\ \E j \in 1..Len(jobs) :
        /\ jobs[j].pc = "fetch"
        /\ FailProcessImage(j, "Failed to fetch")
    /\ UNCHANGED <<sent, results, uiVars, gwVars, shVars>>

\* a non-2xx answer: its body is read and thrown as `API <status>: <text>`
ResponseError ==
    /\ \E j \in 1..Len(jobs), status \in ErrorStatuses :
        /\ jobs[j].pc = "fetch"
        /\ FailProcessImage(j, <<"API ", status>>)
    /\ UNCHANGED <<sent, results, uiVars, gwVars, shVars>>

\* a 2xx answer: resp.json(), then the geolocation lookup starts
ResponseOk ==
    /\ \E j \in 1..Len(jobs), body \in ClientBodies :
        /\ jobs[j].pc = "fetch"
        /\ IF body.kind = "invalid"
           THEN FailProcessImage(j, "Unexpected token in JSON")
           ELSE /\ jobs' = [jobs EXCEPT ![j] = Job("geo", NoFile, jobs[j].best, body)]
                /\ UNCHANGED <<isScanning, alerts>>
    /\ UNCHANGED <<sent, results, uiVars, gwVars, shVars>>

\* the geolocation lookup settles; the record is built and handed over
GeoSettles ==
    /\ \E j \in 1..Len(jobs), geo \in GeoOutcomes :
        /\ jobs[j].pc = "geo"
        /\ LET pos == IF geo.ok THEN geo ELSE FallbackPosition
               data == jobs[j].data
           IN  IF data.kind = "null"
               THEN /\ FailProcessImage(j, "Cannot read properties of null")
                    /\ UNCHANGED <<results, uiVars>>
               ELSE /\ results' = Append(results,
                           Fossil(data, DataUrl(jobs[j].best), pos.lat, pos.lng))
                    /\ handleScanComplete(
                           Fossil(data, DataUrl(jobs[j].best), pos.lat, pos.lng))
                    /\ isScanning' = FALSE
                    /\ jobs' = [jobs EXCEPT ![j] = Ended]
                    /\ UNCHANGED alerts
    /\ UNCHANGED <<sent, gwVars, shVars>>

ClientInit ==
    /\ isScanning = FALSE
    /\ jobs = <<>>
    /\ sent = <<>>
    /\ results = <<>>
    /\ alerts = <<>>
    /\ camera = CameraStarted
    /\ screen = "SCANNER"
    /\ currentResult = None

\* the shaper at rest
ShaperIdle ==
    /\ shIn = [ladder |-> "capture", limit |-> 0,
               src |-> [w |-> 0, h |-> 0, enc |-> <<>>, tieUp |-> TRUE]]
    /\ shOut = None

\* the gateway at rest
GatewayIdle ==
    /\ req = ObjectReq("POST", NullDoc)
    /\ env = GoodEnv
    /\ pc = "idle"
    /\ cursor = 1
    /\ total = 0
    /\ chunks = 0
    /\ reads = 0
    /\ parsed = 0
    /\ timer = "unset"
    /\ elapsed = 0
    /\ aborted = FALSE
    /\ calls = <<>>
    /\ upstream = NoUpstream
    /\ extracted = 0
    /\ cors = NoHeaders
    /\ res = <<>>

\* the gateway serving one request
Init == GatewayInit /\ ShaperIdle /\ ClientInit

Next ==
    \/ Invoke
    \/ ReadChunk
    \/ ReadEnd
    \/ FetchResolve
    \/ FetchReject
    \/ TextResolve
    \/ TextReject
    \/ Tick
    \/ TimerFire

Spec == Init /\ [][Next]_vars

\* the payload shaper run on one source
ShaperInit == ShaperInputs /\ GatewayIdle /\ ClientInit

ShaperNext == Shape

ShaperSpec == ShaperInit /\ [][ShaperNext]_vars

\* the scanner screen in use
ScannerInit == ClientInit /\ GatewayIdle /\ ShaperIdle

ScannerNext ==
    \/ HandleCapture
    \/ HandleFileUpload
    \/ FileDecodeFails
    \/ FileDecoded
    \/ FetchFails
    \/ ResponseError
    \/ ResponseOk
    \/ GeoSettles
    \/ GetUserMediaResolve
    \/ GetUserMediaReject
    \/ OnBack

ScannerSpec == ScannerInit /\ [][ScannerNext]_vars

-----------------------------------------------------------------------------
(* Payload Shaper properties *)

LadderRun == IF shIn.ladder = "capture" THEN CaptureLadder ELSE FileLadder

\* C1: a shaper run tries the presets in ladder order, makes at most as many
\* encodes as the ladder has presets, makes no encode after the first attempt
\* whose estimate floor(base64.length * 3 / 4) is at most the budget, and
\* returns that attempt, or the attempt of the last preset when none fits.
C1_FirstFitOrLast ==
    IsSome(shOut) =>
        LET log == Val(shOut).encodes
            n == Len(log)
        IN  /\ 1 <= n /\ n <= Len(LadderRun)
            /\ \A i \in 1..n :
                /\ log[i].maxDim = LadderRun[i].maxDim
                /\ log[i].quality = LadderRun[i].quality
                /\ log[i].base64.len \in {0, shIn.src.enc[i]}
                /\ log[i].bytes = (log[i].base64.len * 3) \div 4
            /\ \A i \in 1..(n - 1) : log[i].bytes > shIn.limit
            /\ log[n].bytes <= shIn.limit \/ n = Len(LadderRun)
            /\ Val(shOut).best = log[n]

\* a run of the file ladder that stopped in the middle, at an attempt that
\* is exactly at the budget
C1_Witness ==
    /\ IsSome(shOut)
    /\ shIn.ladder = "file"
    /\ Len(Val(shOut).encodes) = 4
    /\ Val(shOut).best.bytes = shIn.limit
    /\ Val(shOut).best.maxDim = 1024

-----------------------------------------------------------------------------
(* Gateway properties *)

RECURSIVE SeqSum(_)
SeqSum(q) == IF Len(q) = 0 THEN 0 ELSE q[1] + SeqSum(Tail(q))

ConfigPresent == ~EnvMissing(env.ARK_API_KEY) /\ ~EnvMissing(env.ARK_MODEL)

\* the request is a POST in image mode that declares a non-empty imageBase64
ImagePost ==
    /\ req.method = "POST"
    /\ req.valid
    /\ req.doc.kind = "object"
    /\ req.doc.mode \in {"", "image"}
    /\ req.doc.imageBase64.len > 0

\* the answer is the 413 of the image size check
ImageTooLarge(r) == r.status = 413 /\ r.body.error = "Image too large"

\* the size check on declared image lengths: over 1.8 * 1024 * 1024 bytes
\* the answer is 413 with the size in megabytes, two decimals, and nothing
\* is sent upstream; at or under it the answer is not that 413
SizeCeiling ==
    LET est == (req.doc.imageBase64.len * 3) \div 4
        mb100 == CHOOSE m \in 0..1000 :
                    /\ 2 * (m * 1048576 - est * 100) <= 1048576
                    /\ 2 * (est * 100 - m * 1048576) < 1048576
    IN  IF est * 10 > 18874368
        THEN /\ res = <<Fail(413, "Image too large",
                             [head |-> "image is about ", mb100 |-> mb100,
                              tail |-> "MB, keep it <= 1.5MB"])>>
             /\ calls = <<>>
        ELSE ~ImageTooLarge(res[1])

\* C2 as stated: every image-mode POST with configuration present and a
\* non-empty imageBase64 is answered by the size check as SizeCeiling says.
C2_EveryImagePost == (pc = "done" /\ ConfigPresent /\ ImagePost) => SizeCeiling

\* C2 as amended: the same, for requests whose body reaches the size check,
\* being already parsed or streaming in at most 4.2 * 1024 * 1024 bytes.
C2_ImagePostWithinBodyCeiling ==
    (/\ pc = "done" /\ ConfigPresent /\ ImagePost
     /\ req.bodyKind = "object" \/ SeqSum(req.stream) * 10 <= 44040192)
    => SizeCeiling

\* a streamed body whose image estimates to 2.00 MB is answered 413
C2_Witness ==
    /\ pc = "done"
    /\ req.bodyKind = "stream"
    /\ ImageTooLarge(res[1])
    /\ res[1].body.detail.mb100 = 200

\* the envelope carries its only non-blank text in choices[0].message.content
ChatShapeOnly(doc) ==
    /\ doc.kind = "object"
    /\ IsSome(doc.choices)
    /\ Len(Val(doc.choices)) >= 1
    /\ NonBlank(Val(doc.choices)[1].message.content)
    /\ ~IsSome(doc.output)

UpstreamOk == pc = "done" /\ IsSome(upstream.raw) /\ upstream.status \in 200..299

\* C3: a 2xx envelope whose only answer text is in choices[0].message.content
\* has that text extracted and handed to extractJson; it is not failed as
\* 'Empty model text'.
C3_ChatShapeExtracted ==
    (UpstreamOk /\ ChatShapeOnly(Val(upstream.raw).doc))
    => /\ extracted = 1
       /\ ~(res[1].status = 502 /\ res[1].body.error = "Empty model text")

\* the model text the handler passes to extractJson
ModelText == Trim(pickAnyText(safeJsonParse(Val(upstream.raw))))

\* no JSON can be got from t: it does not parse, and it has no "{...}" span
\* or its span from the first "{" to the last "}" does not parse
NoJsonIn(t) ==
    /\ ~CanParse(t)
    /\ \/ ~\E i, j \in 1..Len(t) : i < j /\ t[i] = LB /\ t[j] = RB
       \/ \E i, j \in 1..Len(t) :
            /\ i < j /\ t[i] = LB /\ t[j] = RB
            /\ \A k \in 1..(i - 1) : t[k] # LB
            /\ \A k \in (j + 1)..Len(t) : t[k] # RB
            /\ ~CanParse(SubSeq(t, i, j))

\* C4: model text from which no JSON can be got is answered 502 with detail
\* "MODEL_NOT_JSON: " followed by the first 240 characters of the trimmed
\* text, with or without braces in the text.
C4_ModelNotJsonTyped ==
    (UpstreamOk /\ extracted = 1 /\ NoJsonIn(ModelText))
    => res = <<Fail(502, "Function failed",
                    Msg("MODEL_NOT_JSON: ", SubSeq(ModelText, 1, Min(240, Len(ModelText)))))>>

ResultFields == {"Name", "Era", "Classification", "Length", "Rarity", "Confidence", "Note"}

\* C5: every 200 answer to an image-mode request holds the seven result
\* fields, each non-empty.
C5_AllFieldsPresent ==
    (pc = "done" /\ res[1].status = 200 /\ req.doc.mode \in {"", "image"})
    => /\ res[1].body.kind = "object"
       /\ \A k \in ResultFields :
            k \in DOMAIN res[1].body.f /\ ~Falsy(res[1].body.f[k])

TimeoutAnswer ==
    Fail(502, "Function failed", [head |-> "Timeout after ", ms |-> 25000, tail |-> "ms"])

\* C7: the timer fires no earlier than 25000 ms after it was armed; when it
\* fires on an outstanding upstream call the call is aborted and the answer
\* is 502 with detail 'Timeout after 25000ms'; no other failure of the
\* upstream phase is answered with that detail.
C7_TimeoutDistinct ==
    /\ timer = "fired" => aborted
    /\ aborted => /\ elapsed >= 25000
                  /\ pc = "done"
                  /\ res = <<TimeoutAnswer>>
    /\ (pc = "done" /\ ~aborted /\ Len(calls) = 1)
       => ~(/\ res[1].status = 502
            /\ res[1].body.error = "Function failed"
            /\ res[1].body.detail.head = "Timeout after ")

\* the timer fired while the upstream body was being read
C7_Witness ==
    /\ aborted
    /\ upstream.status = 200
    /\ ~IsSome(upstream.raw)
    /\ res = <<TimeoutAnswer>>

Non2xx == pc = "done" /\ upstream.status # 0 /\ upstream.status \notin 200..299

\* C8 as stated: every upstream response with a non-2xx status is answered
\* 502 carrying the upstream status and at most 2000 characters of the
\* upstream body, and is never parsed as a model answer.
C8_EveryNon2xxCarriesStatus ==
    Non2xx
    => /\ res[1].status = 502
       /\ res[1].body.error = "Upstream Ark error"
       /\ res[1].body.upstreamStatus = upstream.status
       /\ res[1].body.upstreamBody.chars <= 2000
       /\ extracted = 0

\* C8 as amended: an upstream response with a non-2xx status is answered 502,
\* never 200, and is never parsed as a model answer; when its body has been
\* read the answer carries the upstream status and the first 2000 characters
\* of that body.
C8_UpstreamFailurePassed ==
    (pc = "done" /\ upstream.status # 0 /\ upstream.status \notin 200..299)
    => /\ Len(res) = 1
       /\ res[1].status = 502
       /\ extracted = 0
       /\ IsSome(upstream.raw)
          => /\ res[1].body.error = "Upstream Ark error"
             /\ res[1].body.upstreamStatus = upstream.status
             /\ res[1].body.upstreamBody.chars <= 2000
             /\ res[1].body.upstreamBody.chars <= Val(upstream.raw).chars
             /\ \/ res[1].body.upstreamBody.chars = 2000
                \/ res[1].body.upstreamBody.chars = Val(upstream.raw).chars
             /\ res[1].body.upstreamBody.doc = Val(upstream.raw).doc

\* a 503 whose body of 5000 characters is cut to 2000
C8_Witness ==
    /\ pc = "done"
    /\ upstream.status = 503
    /\ IsSome(upstream.raw)
    /\ Val(upstream.raw).chars = 5000
    /\ res[1].status = 502
    /\ res[1].body.upstreamBody.chars = 2000

\* x is absent or holds only blanks
Blank(x) == ~IsSome(x) \/ \A i \in 1..Len(Val(x)) : Val(x)[i].c \in {" ", "\n"}

\* no field that pickAnyText probes holds a non-blank string
NoProbedText(doc) ==
    \/ ~IsSome(doc.output)
    \/ \A i \in 1..Len(Val(doc.output)) :
        LET o == Val(doc.output)[i]
        IN  /\ IsSome(o.content)
               => \A j \in 1..Len(Val(o.content)) :
                    Blank(Val(o.content)[j].text) /\ Blank(Val(o.content)[j].content)
            /\ IsSome(o.summary)
               => \A j \in 1..Len(Val(o.summary)) : Blank(Val(o.summary)[j].text)

\* C9: a 2xx JSON envelope in which no probed field holds a non-blank string
\* is answered 502 'Empty model text' with the parsed envelope in the body;
\* extractJson is not called.
C9_EmptyModelText ==
    (/\ UpstreamOk
     /\ Val(upstream.raw).chars > 0
     /\ Val(upstream.raw).doc.kind \notin {"invalid", "null", "zero"}
     /\ NoProbedText(Val(upstream.raw).doc))
    => /\ res = <<Json(502, [error |-> "Empty model text",
                             detail |-> [head |-> "no text field in the Ark body"],
                             upstream |-> Val(upstream.raw).doc])>>
       /\ extracted = 0

\* an envelope whose output text is only blanks is answered 'Empty model text'
C9_Witness ==
    /\ UpstreamOk
    /\ Val(upstream.raw).doc = MessageText(<<SP>>)
    /\ res[1].status = 502
    /\ res[1].body.error = "Empty model text"

\* C10: OPTIONS is answered 204 with an empty body whatever the
\* configuration and the body; a method other than OPTIONS and POST is
\* answered 405; in both cases readJson is not called, nothing is read from
\* the request stream and nothing is sent upstream.
C10_MethodGate ==
    (pc # "start" /\ req.method # "POST")
    => /\ pc = "done"
       /\ reads = 0 /\ total = 0 /\ chunks = 0 /\ parsed = 0
       /\ calls = <<>>
       /\ IF req.method = "OPTIONS"
          THEN res = <<[status |-> 204, json |-> FALSE, body |-> <<>>]>>
          ELSE res = <<[status |-> 405, json |-> TRUE,
                        body |-> [error |-> "Method Not Allowed"]]>>

\* OPTIONS with no ARK_API_KEY and a body of 5 MB on the stream
C10_Witness ==
    /\ pc = "done"
    /\ req.method = "OPTIONS"
    /\ env.ARK_API_KEY = None
    /\ req.bodyKind = "stream"
    /\ Len(req.stream) > 1
    /\ res[1].status = 204

-----------------------------------------------------------------------------
(* Inference Client properties *)

TextFields ==
    {"id", "name", "era", "classification", "length", "rarity", "matchConfidence",
     "description", "note", "timestamp"}

\* C6: every record passed to onResult has all its fields defined, the
\* fields taken from the answer being neither undefined nor falsy.
C6_NoUndefinedField ==
    \A i \in 1..Len(results) :
        /\ \A k \in TextFields :
            results[i][k] # "undefined" /\ results[i][k] \notin {"", "0", "null", "false"}
        /\ results[i].imageUrl.base64.len >= 0
        /\ results[i].location.lat \in Int
        /\ results[i].location.lng \in Int

\* a record built from an answer whose Name is empty and whose Era is missing
C6_Witness ==
    \E i \in 1..Len(results) :
        /\ results[i].name = "unknown specimen"
        /\ results[i].era = "Mesozoic"
        /\ results[i].rarity = "rare"

-----------------------------------------------------------------------------
(* Gateway properties: configuration, body ceiling, image check *)

\* C11: a POST received while ARK_API_KEY or ARK_MODEL is unset or empty is
\* answered 500 with a diagnostic detail whatever its body; readJson is not
\* called, nothing is read from the request stream, nothing is parsed and
\* nothing is sent upstream.
C11_MissingEnv ==
    (/\ pc # "start"
     /\ req.method = "POST"
     /\ \/ env.ARK_API_KEY \in {<<>>, <<"">>}
        \/ env.ARK_MODEL \in {<<>>, <<"">>})
    => /\ pc = "done"
       /\ Len(res) = 1
       /\ res[1].status = 500
       /\ res[1].json
       /\ res[1].body.error = "Missing env"
       /\ res[1].body.detail.head # ""
       /\ reads = 0 /\ total = 0 /\ chunks = 0 /\ parsed = 0
       /\ calls = <<>>

\* a POST whose 5 MB body is still on the stream, with ARK_MODEL empty
C11_Witness ==
    /\ pc = "done"
    /\ req.method = "POST"
    /\ env.ARK_API_KEY = <<"set">>
    /\ env.ARK_MODEL = <<"">>
    /\ req.bodyKind = "stream"
    /\ Len(req.stream) > 4
    /\ res[1].status = 500

\* the bytes of the body of request r
RequestBytes(r) ==
    IF r.bodyKind = "stream" THEN SeqSum(r.stream) ELSE r.doc.imageBase64.len + 64

\* the sum of the first n chunks of the request stream
RECURSIVE PrefixBytes(_)
PrefixBytes(n) == IF n = 0 THEN 0 ELSE req.stream[n] + PrefixBytes(n - 1)

\* C12 as stated: every POST with configuration present whose body totals
\* more than 4.2 * 1024 * 1024 bytes is answered 413, and its body is never
\* JSON-parsed.
C12_EveryOversizedBody ==
    (/\ pc = "done" /\ req.method = "POST" /\ ConfigPresent
     /\ RequestBytes(req) * 10 > 44040192)
    => /\ res[1].status = 413
       /\ parsed = 0

\* C12 as amended: a POST with configuration present whose body is read from
\* the request stream and totals more than 4.2 * 1024 * 1024 bytes is
\* answered 413 'Payload too large'; reading stops at the first chunk that
\* takes the running total over the ceiling, the bytes buffered never exceed
\* the ceiling, the body is never JSON-parsed and nothing is sent upstream.
C12_StreamedBodyCeiling ==
    /\ chunks * 10 <= 44040192
    /\ (/\ req.method = "POST" /\ ConfigPresent /\ req.bodyKind = "stream"
        /\ SeqSum(req.stream) * 10 > 44040192)
       => /\ parsed = 0
          /\ calls = <<>>
          /\ cursor <= Len(req.stream)
          /\ chunks = PrefixBytes(cursor - 1)
          /\ pc = "done"
             => /\ Len(res) = 1
                /\ res[1].status = 413
                /\ res[1].body.error = "Payload too large"
                /\ total = PrefixBytes(cursor)
                /\ total * 10 > 44040192

\* a body of 5000064 bytes is cut off at its fifth chunk with 4 MiB buffered
C12_Witness ==
    /\ pc = "done"
    /\ req.bodyKind = "stream"
    /\ SeqSum(req.stream) = 5000064
    /\ cursor = 5
    /\ chunks = 4194304
    /\ res[1].status = 413
    /\ res[1].body.error = "Payload too large"

\* the bytes bs begin with the bytes sig
StartsWith(bs, sig) == Len(bs) >= Len(sig) /\ SubSeq(bs, 1, Len(sig)) = sig

\* the decoded image is at least 16 bytes and begins with a JPEG, PNG or
\* RIFF/WEBP signature
HasImageSignature(b64) ==
    /\ (b64.len * 3) \div 4 - b64.pad >= 16
    /\ \/ StartsWith(b64.head, <<255, 216, 255>>)
       \/ StartsWith(b64.head, <<137, 80, 78, 71, 13, 10, 26, 10>>)
       \/ /\ StartsWith(b64.head, <<82, 73, 70, 70>>)
          /\ Len(b64.head) >= 12
          /\ SubSeq(b64.head, 9, 12) = <<87, 69, 66, 80>>

\* the request is an image-mode POST whose body was read and whose image
\* passed the size check
PassedSizeCheck ==
    /\ pc \in {"fetching", "text", "done"}
    /\ ConfigPresent
    /\ ImagePost
    /\ req.bodyKind = "object" \/ parsed = 1
    /\ ((req.doc.imageBase64.len * 3) \div 4) * 10 <= 18874368

\* C13: an image that passed the size check and decodes to fewer than 16
\* bytes or begins with none of the three signatures is answered 400
\* 'Invalid image' with no upstream call; an image of at least 16 bytes that
\* begins with one of them is not rejected by this check.
C13_MagicNumberCheck ==
    PassedSizeCheck
    => IF HasImageSignature(req.doc.imageBase64)
       THEN Len(calls) = 1
       ELSE /\ pc = "done"
            /\ res[1].status = 400
            /\ res[1].body.error = "Invalid image"
            /\ calls = <<>>

-----------------------------------------------------------------------------
(* Media Codec properties *)

\* t is an integer nearest to side * maxDim / largest
NearestScaled(t, side, maxDim, largest) ==
    /\ 2 * (t * largest - side * maxDim) <= largest
    /\ 2 * (side * maxDim - t * largest) <= largest

\* C14: for a source of w by h pixels, w, h >= 1, every encode of a run has
\* its largest side equal to min(max(w, h), maxDim) and its other side equal
\* to the source's other side times min(1, maxDim / max(w, h)) rounded to a
\* nearest integer; a source within maxDim keeps its size.
C14_ScaledTarget ==
    (IsSome(shOut) /\ shIn.src.w >= 1 /\ shIn.src.h >= 1)
    => LET w == shIn.src.w
           h == shIn.src.h
           largest == IF w >= h THEN w ELSE h
           log == Val(shOut).encodes
       IN  \A i \in 1..Len(log) :
            LET d == log[i].maxDim
                target == IF log[i].width >= log[i].height
                          THEN log[i].width ELSE log[i].height
            IN  /\ target = (IF largest <= d THEN largest ELSE d)
                /\ (w >= h) => log[i].width = target
                /\ (h >= w) => log[i].height = target
                /\ IF largest <= d
                   THEN log[i].width = w /\ log[i].height = h
                   ELSE /\ NearestScaled(log[i].width, w, d, largest)
                        /\ NearestScaled(log[i].height, h, d, largest)

\* a 5600 by 105 source under maxDim 900: 105 * 900 / 5600 = 16.875 gives 17
C14_Witness ==
    /\ IsSome(shOut)
    /\ shIn.src.w = 5600
    /\ shIn.src.h = 105
    /\ \E i \in 1..Len(Val(shOut).encodes) :
        /\ Val(shOut).encodes[i].maxDim = 900
        /\ Val(shOut).encodes[i].width = 900
        /\ Val(shOut).encodes[i].height = 17

-----------------------------------------------------------------------------
(* Gateway properties: one response, one upstream attempt *)

ResponseStatuses == {200, 204, 400, 405, 413, 500, 502}

C16_NoRetry == Len(calls) <= 1

\* an upstream attempt that failed with a 503 and was not followed by another
C16_Witness ==
    /\ pc = "done"
    /\ Len(calls) = 1
    /\ upstream.status = 503
    /\ res[1].status = 502

-----------------------------------------------------------------------------
(* Scanner screen properties *)

\* the processImage calls whose analysis request is outstanding
Outstanding == {j \in 1..Len(jobs) : jobs[j].pc = "fetch"}

\* the processImage calls that have started and not yet exited
Running == {j \in 1..Len(jobs) : jobs[j].pc \in {"fetch", "geo"}}

\* C17: at every moment at most one analysis request issued by processImage
\* is outstanding.
C17_SingleInFlight == Cardinality(Outstanding) <= 1

\* C18: when no processImage call is running, isScanning is false: every
\* call that has exited, on whatever route, has cleared the flag it set.
C18_FlagCleared == (Running = {}) => ~isScanning

\* two calls have exited, one with onResult and one through the catch block
C18_Witness ==
    /\ Running = {}
    /\ Len(sent) = 2
    /\ Len(results) = 1
    /\ Len(alerts) = 1
    /\ alerts[1].title = "analysis failed"
    /\ ~isScanning

-----------------------------------------------------------------------------
(* Gateway properties: summary fallback, prose-wrapped JSON *)

\* no content part of the envelope holds a non-blank text or content
NoContentText(doc) ==
    \A i \in 1..Len(Val(doc.output)) :
        LET o == Val(doc.output)[i]
        IN  IsSome(o.content)
            => \A j \in 1..Len(Val(o.content)) :
                Blank(Val(o.content)[j].text) /\ Blank(Val(o.content)[j].content)

\* the non-blank summary texts of the items, in list order
RECURSIVE SummaryFragments(_)
SummaryFragments(items) ==
    IF Len(items) = 0 THEN <<>>
    ELSE LET ss == IF IsSome(items[1].summary) THEN Val(items[1].summary) ELSE <<>>
             kept == SelectSeq(ss, LAMBDA p : ~Blank(p.text))
         IN  [k \in 1..Len(kept) |-> Val(kept[k].text)]
             \o SummaryFragments(Tail(items))

\* the texts ts with a newline between each two
RECURSIVE Lines(_)
Lines(ts) ==
    IF Len(ts) = 0 THEN <<>>
    ELSE IF Len(ts) = 1 THEN ts[1]
    ELSE ts[1] \o <<Ch("\n")>> \o Lines(Tail(ts))

\* C19: for a 2xx envelope whose output items hold no non-blank content text
\* and at least one non-blank summary text, the extracted text is the
\* non-blank summary texts joined by newlines in list order and trimmed; it
\* is handed to extractJson, whose outcome is the answer, and the request is
\* not failed as 'Empty model text'.
C19_SummaryFallback ==
    (UpstreamOk /\ Val(upstream.raw).doc.kind = "object"
                /\ IsSome(Val(upstream.raw).doc.output))
    => LET doc == Val(upstream.raw).doc
           frags == SummaryFragments(Val(doc.output))
           expected == Trim(Lines(frags))
           out == extractJson(expected)
       IN  (NoContentText(doc) /\ frags # <<>>)
           => /\ pickAnyText(doc) = expected
              /\ extracted = 1
              /\ Len(res) = 1
              /\ IF out.ok
                 THEN /\ res[1].status = 200
                      /\ req.doc.mode \in {"", "image"} => res[1].body = out.value
                 ELSE /\ res[1].status = 502
                      /\ res[1].body.error = "Function failed"

\* two summary texts, prose and then an object, and no content: the answer
\* is the object found in "pp\n{...}"
C19_Witness ==
    /\ UpstreamOk
    /\ Val(upstream.raw).doc =
         Envelope(Some(<<Item(None, Some(<<SPart(Some(<<PR, PR>>)),
                                           SPart(Some(NameOnly))>>))>>), None)
    /\ extracted = 1
    /\ res[1].status = 200
    /\ res[1].body = JsonParse(NameOnly)

\* C20: for model text made of prose, one valid JSON object and prose again,
\* also when the prose holds a brace or a second JSON object, extractJson
\* returns that object: an image-mode request is answered 200 with it.
C20_ProseWrappedJson ==
    (UpstreamOk /\ extracted = 1 /\ req.doc.mode \in {"", "image"})
    => LET t == ModelText
           opens == {i \in 1..Len(t) : t[i] = LB}
           closes == {j \in 1..Len(t) : t[j] = RB}
           spans == {sp \in opens \X closes :
                        sp[1] < sp[2] /\ IsObjectText(SubSeq(t, sp[1], sp[2]))}
       IN  spans # {}
           => /\ res[1].status = 200
              /\ \E sp \in spans : res[1].body = JsonParse(SubSeq(t, sp[1], sp[2]))

-----------------------------------------------------------------------------
(* extractJson on the JSON text of a result *)

\* a result value as JavaScript holds it: its properties in insertion order
Props(name, era, rarity, confidence) ==
    <<[k |-> "Name", v |-> name], [k |-> "Era", v |-> era],
      [k |-> "Classification", v |-> IF era = "Jurassic" THEN "Sauropoda" ELSE "Theropoda"],
      [k |-> "Length", v |-> IF era = "Jurassic" THEN "20m" ELSE "12m"],
      [k |-> "Rarity", v |-> rarity], [k |-> "Confidence", v |-> confidence],
      [k |-> "Note", v |-> IF era = "Jurassic" THEN "worn fragment"
                           ELSE "two short sentences"]>>

\* the values of the AnalysisResult shape tried
AnalysisResults ==
    {Props(name, era, rarity, confidence) :
        name \in {"Tyrannosaurus", ""}, era \in {"Cretaceous", "Jurassic"},
        rarity \in {"legendary", "rare"}, confidence \in {"95", "0"}}

\* JSON.stringify(x): the properties in order between braces
Stringify(x) == <<LB>> \o [i \in 1..Len(x) |-> Mem(x[i].k, x[i].v)] \o <<RB>>

\* the parsed value equal to x: each property name with its value
ValueOf(x) ==
    JObject([k \in {x[i].k : i \in 1..Len(x)} |->
                (CHOOSE p \in {x[i] : i \in 1..Len(x)} : p.k = k).v])

-----------------------------------------------------------------------------
(* Response headers *)

Header(name, value) == name \in DOMAIN cors /\ cors[name] = value

\* C22: every response sent, whatever its status, goes out with
\* Access-Control-Allow-Origin "*", Access-Control-Allow-Methods
\* "POST,OPTIONS" and Access-Control-Allow-Headers
\* "Content-Type,Authorization" set on it.
C22_CorsOnEveryResponse ==
    Len(res) >= 1
    => /\ Header("Access-Control-Allow-Origin", "*")
       /\ Header("Access-Control-Allow-Methods", "POST,OPTIONS")
       /\ Header("Access-Control-Allow-Headers", "Content-Type,Authorization")

\* a body over the ceiling was answered 413 with the three headers set
C22_Witness ==
    /\ res = <<Fail(413, "Payload too large", [head |-> "request body too large"])>>
    /\ DOMAIN cors = {"Access-Control-Allow-Origin", "Access-Control-Allow-Methods",
                      "Access-Control-Allow-Headers"}

-----------------------------------------------------------------------------
(* Content text and summary text together *)

\* the non-blank content texts of the items, text before content, in list
\* order
RECURSIVE ContentFragments(_)
ContentFragments(items) ==
    IF Len(items) = 0 THEN <<>>
    ELSE LET cs == IF IsSome(items[1].content) THEN Val(items[1].content) ELSE <<>>
             both == [k \in 1..(2 * Len(cs)) |->
                         IF k % 2 = 1 THEN cs[(k + 1) \div 2].text
                         ELSE cs[k \div 2].content]
             kept == SelectSeq(both, LAMBDA x : ~Blank(x))
         IN  [k \in 1..Len(kept) |-> Val(kept[k])] \o ContentFragments(Tail(items))

\* C23: for a 2xx envelope of which some output item holds a non-blank
\* content text, the extracted text is those content texts alone, joined in
\* list order; no summary text is part of it.
C23_SummaryLastResortOnly ==
    (UpstreamOk /\ Val(upstream.raw).doc.kind = "object"
                /\ IsSome(Val(upstream.raw).doc.output))
    => LET doc == Val(upstream.raw).doc
       IN  ~NoContentText(doc)
           => pickAnyText(doc) = Trim(Lines(ContentFragments(Val(doc.output))))

-----------------------------------------------------------------------------
(* Suspension points and the timer *)

\* the handler is suspended on a peer: the request stream, the outbound
\* fetch or the upstream body
Suspended == pc \in {"reading", "fetching", "text"}

\* C24: at every suspension point of a POST invocation (body streaming,
\* outbound fetch, reading the upstream body) a timeout is pending, so that
\* a peer that never completes cannot keep the invocation from answering.
C24_EveryWaitTimed == Suspended => timer = "armed"

-----------------------------------------------------------------------------
(* The upstream call and the checks before it *)

\* the body was read to its end within 4.2 * 1024 * 1024 bytes and parsed
BodyRead ==
    \/ req.bodyKind = "object"
    \/ /\ cursor > Len(req.stream)
       /\ SeqSum(req.stream) * 10 <= 44040192
       /\ req.valid \/ SeqSum(req.stream) = 0

\* the body the checks see: an empty stream reads as "{}"
BodySeen ==
    IF req.bodyKind = "stream" /\ SeqSum(req.stream) = 0
    THEN [kind |-> "object", mode |-> "", imageBase64 |-> NoImage, prompt |-> ""]
    ELSE req.doc

\* the image-mode conditions: a non-empty image estimated at or under
\* 1.8 * 1024 * 1024 bytes on which the magic-number check returned
ImageAccepted(b) ==
    /\ b.mode \in {"", "image"}
    /\ b.imageBase64.len > 0
    /\ ((b.imageBase64.len * 3) \div 4) * 10 <= 18874368
    /\ assertLooksLikeImageBase64(b.imageBase64) = ""

TextAccepted(b) == b.mode = "text" /\ b.prompt # ""

-----------------------------------------------------------------------------
(* The abort timer *)

\* C30: the abort timer is set only for a request that passed validation
\* and went upstream, and once the response of the invocation has been sent
\* the timer is not pending; an abort has fired only as the timeout answer
\* itself, never after another response.
C30_TimerLifecycle ==
    /\ timer # "unset"
       => /\ Len(calls) = 1
          /\ req.method = "POST" /\ ConfigPresent /\ BodyRead
          /\ ImageAccepted(BodySeen) \/ TextAccepted(BodySeen)
    /\ pc = "done" => timer # "armed"
    /\ aborted => (timer = "fired" /\ res = <<TimeoutAnswer>>)

\* the upstream answered 200 in time and the timer was cleared
C30_Witness ==
    /\ pc = "done"
    /\ timer = "cleared"
    /\ ~aborted
    /\ elapsed = TickMs
    /\ res[1].status = 200

-----------------------------------------------------------------------------
(* The size of the encode target *)

\* C29: for a source of at least 1 by 1 pixels, every attempt of a ladder
\* run encodes a target at least 1 pixel wide and 1 pixel high, and the
\* payload returned is not the empty string.
C29_TargetNotDegenerate ==
    (IsSome(shOut) /\ shIn.src.w >= 1 /\ shIn.src.h >= 1)
    => /\ \A i \in 1..Len(Val(shOut).encodes) :
            Val(shOut).encodes[i].width >= 1 /\ Val(shOut).encodes[i].height >= 1
       /\ Val(shOut).best.base64.len > 0

-----------------------------------------------------------------------------
(* The client's budget and the gateway's ceiling *)

\* what the gateway's checks answer to the body the scanner sent
GatewayVerdict(body) == Validate(Doc("", Img(body.imageBase64.len, 0, JPEG), ""))

\* C27: every body the scanner has sent, from the shutter or from a picked
\* file, carries an imageBase64 whose estimate floor(length * 3 / 4) is at
\* most 1,200,000, and the gateway's checks do not answer it with the 413
\* 'Image too large'.
C27_BudgetBelowCeiling ==
    \A i \in 1..Len(sent) :
        /\ (sent[i].imageBase64.len * 3) \div 4 <= 1200000
        /\ IsSome(GatewayVerdict(sent[i])) => ~ImageTooLarge(Val(GatewayVerdict(sent[i])))

\* one result over the budget was refused with an alert, and a payload
\* estimated at exactly 1,200,000 bytes was sent and passes the gateway's
\* checks
C27_Witness ==
    /\ \E a \in 1..Len(alerts) : alerts[a].title = "image still too large"
    /\ Len(sent) = 1
    /\ (sent[1].imageBase64.len * 3) \div 4 = 1200000
    /\ GatewayVerdict(sent[1]) = None

-----------------------------------------------------------------------------
(* The camera stream and the scanner's unmount *)

\* once the view is gone a stream that getUserMedia returned has its tracks
\* stopped and is not held in streamRef
Released ==
    ~camera.mounted
    => /\ camera.gum = "resolved" => camera.tracks = "stopped"
       /\ camera.tracks # "live"
       /\ ~camera.streamRef

\* C25: after the scanner view has unmounted, every stream getUserMedia
\* returned has its tracks stopped, whether it was acquired and stored
\* before the unmount or resolved after it, and a stream that resolves
\* after the unmount is not attached to the video element.
C25_StreamReleased ==
    /\ []Released
    /\ [][~camera.mounted => camera'.srcObject = camera.srcObject]_vars

\* the view was closed while getUserMedia was pending and the stream that
\* resolved afterwards was stopped without being attached
C25_Witness ==
    /\ screen = "HOME"
    /\ ~camera.mounted
    /\ camera.gum = "resolved"
    /\ camera.tracks = "stopped"
    /\ ~camera.srcObject

-----------------------------------------------------------------------------
(* Results that arrive after the scanner was closed *)

\* C28: once the scanner has been closed with onBack and the app shows
\* HOME, the completion of an analysis still outstanding does not call
\* onResult: the screen, currentResult and the records handed over stay as
\* they are.
C28_NoLateResult ==
    [][screen = "HOME"
       => /\ screen' = "HOME"
          /\ currentResult' = currentResult
          /\ results' = results]_vars

=============================================================================
